---- MODULE Spec2Model ----
(***************************************************************************)
(* Model of metrics-service/src/main.rs: the proxy handler, the traffic    *)
(* metrics it keeps under state.traffic_metrics (an RwLock), and the       *)
(* GET /metrics/traffic scrape.                                            *)
(*                                                                         *)
(* avg_response_time_ms is an f64 in the source; it is modelled as an      *)
(* exact rational <<numerator, denominator>> in lowest terms, so rounding  *)
(* of the floating point operations is not represented.                   *)
(***************************************************************************)
EXTENDS Integers, Sequences, FiniteSets, TLC

\* ------------------------------------------------------------------ bounds
NumReqs == 2          \* handler invocations that can be in flight together
MaxRequests == 2      \* requests accepted in one run of Spec
MaxSoak == 150        \* requests accepted in one run of SoakSpec
MaxUpdates == 2       \* token updates accepted in one run of LedgerSpec
MaxRouted == 3        \* requests routed in one run of RouteSpec
MaxHeaders == 2       \* header lines of one message in HeaderSpec
MaxMemory == 12       \* small memory sizes drawn in SystemSpec
MaxRelayed == 101     \* requests accepted in one run of RelaySpec
MaxMean == 3          \* requests accepted in one run of MeanSpec

\* ------------------------------------------------------- program constants
MaxTimes == 100       \* latencies kept per path
HoursPerDay == 24     \* length of hourly_requests

\* ---------------------------------------------------------- input domains
Reqs == 1..NumReqs
Paths == {"/a", "/b"}
Methods == {"GET", "TRACE"}
NoUA == "absent"      \* no User-Agent header
BadUA == "opaque"     \* a User-Agent header that to_str() rejects
UserAgents == {NoUA, BadUA, "curl"}
BodySizes == {0, 2}
Hours == {0, 23}
Times == {100, 200}
BackendStatuses == {200, 405, 500}
RespSizes == {0, 3}
Latencies == {1, 3}
Absent == -1          \* None of an Option<u64>
NoModel == "none"     \* None of payload.model
Models == {NoModel, "gpt", "llama"}
Totals == {0, 5, 10}
InputCounts == {Absent, 4}
OutputCounts == {Absent, 6}
StartTime == 50       \* SystemTime::now() when main builds the state
RequestHeaderNames == {"host", "cookie", "accept"}
ResponseHeaderNames == {"content-length", "set-cookie", "etag"}
HeaderValues == {"v1", "v2"}
\* measured round trips, in nanoseconds
DurationNanos == {100000, 200000, 300000}
\* memory sizes: the small ones, and some that f32 cannot hold exactly
MemorySizes == (0..MaxMemory) \cup {16777216, 16777217, 16777219}
RouteMethods == {"GET", "POST", "DELETE", "TRACE"}
RoutePaths == {"/metrics", "/metrics/system", "/metrics/tokens",
               "/metrics/traffic", "/metrics/tokens/", "/a"}

VARIABLES
    traffic_metrics,  \* state.traffic_metrics: the TrafficMetrics value
    traffic_lock,     \* the RwLock around it: 0 = free, r = write-held by r
    pc,               \* position of each handler invocation
    req,              \* locals of each handler invocation
    hist,             \* per request: what it has done so far (history)
    obs,              \* per run: what has happened so far (history)
    traffic_data,     \* last copy returned by GET /metrics/traffic
    traffic_poisoned, \* the RwLock is poisoned: a holder panicked
    token_metrics,    \* state.token_metrics: the TokenMetrics value
    token_call,       \* the update holding the token lock, or NoCall
    token_data,       \* last copy returned by GET /metrics/tokens
    ledger,           \* per run: the payloads recorded so far (history)
    routed,           \* the last request routed and the handler it got
    wire,             \* headers of one proxied exchange
    system,           \* sysinfo reading and the SystemMetrics built from it
    mean              \* total_requests and avg_response_time_ms in f64

traffic_vars ==
    <<traffic_metrics, traffic_lock, pc, req, hist, obs, traffic_data,
      traffic_poisoned>>

token_vars == <<token_metrics, token_call, token_data, ledger>>

other_vars == <<token_vars, routed, wire, system, mean>>

vars == <<traffic_vars, other_vars>>

\* ------------------------------------------------------------- HashMap
EmptyMap == [k \in {} |-> 0]

Get(m, k) == IF k \in DOMAIN m THEN m[k] ELSE 0

\* map.insert(k, 1): an existing count is overwritten
BumpBroken(m, k) == [x \in DOMAIN m \cup {k} |-> IF x = k THEN 1 ELSE m[x]]

\* *map.entry(k).or_insert(0) += 1
Bump(m, k) ==
    [x \in DOMAIN m \cup {k} |-> IF x = k THEN Get(m, k) + 1 ELSE m[x]]

\* sum of the values of a map
RECURSIVE SumMap(_)
SumMap(m) ==
    IF DOMAIN m = {} THEN 0
    ELSE LET k == CHOOSE x \in DOMAIN m : TRUE
         IN m[k] + SumMap([x \in DOMAIN m \ {k} |-> m[x]])

\* ------------------------------------------------------------- f64 as rational
RECURSIVE GCD(_, _)
GCD(a, b) == IF b = 0 THEN a ELSE GCD(b, a % b)

Rat(n, d) == LET g == GCD(n, d) IN IF g = 0 THEN <<0, 1>> ELSE <<n \div g, d \div g>>

RatOfInt(n) == <<n, 1>>

\* ------------------------------------------------------------- TrafficMetrics
DefaultTraffic ==
    [ total_requests |-> 0,
      requests_by_endpoint |-> EmptyMap,
      responses_by_status |-> EmptyMap,
      total_bytes_in |-> 0,
      total_bytes_out |-> 0,
      avg_response_time_ms |-> RatOfInt(0),
      response_times |-> EmptyMap,
      requests_by_user_agent |-> EmptyMap,
      hourly_requests |-> [h \in 0..(HoursPerDay - 1) |-> 0],
      last_updated |-> 0 ]

\* the increment of total_requests left out
CountRequestDropped(tm) == tm

\* traffic_metrics.total_requests += 1
CountRequest(tm) == [tm EXCEPT !.total_requests = @ + 1]

\* if let Some(user_agent) = ... { if let Ok(ua_str) = user_agent.to_str() { ... } }
TrackUserAgent(m, ua) == IF ua \in {NoUA, BadUA} THEN m ELSE Bump(m, ua)

\* requests_by_endpoint.entry(path).or_insert(1): a path already present
\* is not counted again
RecordIngressInsertOnly(tm, path, body_len, ua, hour, now) ==
    [tm EXCEPT
        !.requests_by_endpoint =
            IF path \in DOMAIN @ THEN @ ELSE Bump(@, path),
        !.total_bytes_in = @ + body_len,
        !.requests_by_user_agent = TrackUserAgent(@, ua),
        !.hourly_requests = [@ EXCEPT ![hour] = @ + 1],
        !.last_updated = now]

\* hourly_requests[current_hour] = 1: the bucket restarts instead of growing
RecordIngressHourReset(tm, path, body_len, ua, hour, now) ==
    [tm EXCEPT
        !.requests_by_endpoint = Bump(@, path),
        !.total_bytes_in = @ + body_len,
        !.requests_by_user_agent = TrackUserAgent(@, ua),
        !.hourly_requests = [@ EXCEPT ![hour] = 1],
        !.last_updated = now]

\* the rest of the ingress block, after total_requests += 1
RecordIngress(tm, path, body_len, ua, hour, now) ==
    [tm EXCEPT
        !.requests_by_endpoint = Bump(@, path),
        !.total_bytes_in = @ + body_len,
        !.requests_by_user_agent = TrackUserAgent(@, ua),
        !.hourly_requests = [@ EXCEPT ![hour] = @ + 1],
        !.last_updated = now]

\* a match whose default arm forwards too
IsSupportedAny(method) == TRUE

\* the arms of match method.as_str()
SupportedMethods == {"GET", "POST", "PUT", "DELETE", "PATCH", "HEAD", "OPTIONS"}

\* match method.as_str() { "GET" => ..., _ => return 405 }
IsSupported(method) == method \in SupportedMethods

\* the weighted moving average of the egress block, as the exact fraction
\* (UpdateAvgF64 is the same with the rounding of f64)
UpdateAvg(avg, n, elapsed) ==
    IF n > 1
    THEN Rat(avg[1] * (n - 1) + elapsed * avg[2], avg[2] * n)
    ELSE RatOfInt(elapsed)

\* response_times.entry(path).or_insert_with(Vec::new).push(elapsed)
PushTime(m, path, elapsed) ==
    [x \in DOMAIN m \cup {path} |->
        IF x = path
        THEN (IF path \in DOMAIN m THEN m[path] ELSE <<>>) \o <<elapsed>>
        ELSE m[x]]

\* the average taken over the responses recorded so far instead of over
\* total_requests
RecordEgressByResponses(tm, path, status, body_len, elapsed) ==
    [tm EXCEPT
        !.responses_by_status = Bump(@, status),
        !.total_bytes_out = @ + body_len,
        !.avg_response_time_ms =
            UpdateAvg(@, SumMap(tm.responses_by_status) + 1, elapsed),
        !.response_times = PushTime(@, path, elapsed)]

\* the egress block up to and including the push
RecordEgress(tm, path, status, body_len, elapsed) ==
    [tm EXCEPT
        !.responses_by_status = Bump(@, status),
        !.total_bytes_out = @ + body_len,
        !.avg_response_time_ms = UpdateAvg(@, tm.total_requests, elapsed),
        !.response_times = PushTime(@, path, elapsed)]

\* times.truncate(100): the oldest entries are kept
TrimOldest(times) ==
    IF Len(times) > MaxTimes THEN SubSeq(times, 1, MaxTimes) ELSE times

\* if times.len() > 100 { *times = times.iter().skip(times.len() - 100)... }
Trim(times) ==
    IF Len(times) > MaxTimes
    THEN SubSeq(times, Len(times) - MaxTimes + 1, Len(times))
    ELSE times

TrimTimes(tm, path) ==
    IF path \in DOMAIN tm.response_times
    THEN [tm EXCEPT !.response_times[path] = Trim(@)]
    ELSE tm

\* ------------------------------------------------------------- TokenMetrics
InitialTokens ==
    [ total_processed |-> 0,
      input_tokens |-> 0,
      output_tokens |-> 0,
      by_model |-> EmptyMap,
      timestamp |-> StartTime ]

\* payload.input.unwrap_or(0)
UnwrapOr0(x) == IF x = Absent THEN 0 ELSE x

\* total_processed, input_tokens, output_tokens, timestamp of the update
RecordTotals(tm, payload, now) ==
    [tm EXCEPT
        !.total_processed = @ + payload.total,
        !.input_tokens = @ + UnwrapOr0(payload.input),
        !.output_tokens = @ + UnwrapOr0(payload.output),
        !.timestamp = now]

\* by_model.insert(model, payload.total): the model's earlier total is lost
RecordModelInsert(tm, payload) ==
    IF payload.model # NoModel
    THEN [tm EXCEPT !.by_model =
            [x \in DOMAIN @ \cup {payload.model} |->
                IF x = payload.model THEN payload.total ELSE @[x]]]
    ELSE tm

\* if let Some(model) = &payload.model { *entry(model).or_insert(0) += total }
RecordModel(tm, payload) ==
    IF payload.model # NoModel
    THEN [tm EXCEPT !.by_model =
            [x \in DOMAIN @ \cup {payload.model} |->
                IF x = payload.model THEN Get(@, x) + payload.total ELSE @[x]]]
    ELSE tm

NoCall == [held |-> FALSE, model |-> NoModel, total |-> 0,
           input |-> Absent, output |-> Absent]

NoLedger == [count |-> 0, total |-> 0, input |-> 0, output |-> 0,
             named |-> {},
             by |-> [m \in Models \ {NoModel} |-> 0]]

\* ------------------------------------------------------------- requests
NoReq == [method |-> "GET", path |-> "/a", status |-> 0, body_bytes |-> 0,
          elapsed |-> 0, resp |-> 0]

NoHist == [ingress |-> 0, egress |-> 0, sent |-> FALSE, roundtrip |-> FALSE,
           fate |-> "none"]

NoObs == [accepted |-> 0,
          received |-> [p \in Paths |-> 0],
          rejected |-> [p \in Paths |-> 0],
          completed |-> [s \in BackendStatuses |-> 0],
          bytes_back |-> 0,
          samples |-> [p \in Paths |-> <<>>],
          scrape_failed |-> FALSE]

Handlers == {"metrics", "system_metrics", "token_metrics",
             "update_token_metrics", "traffic_metrics", "proxy_handler",
             "method_not_allowed"}

NoRoute == [method |-> "GET", path |-> "/", handler |-> "none",
            tally |-> [h \in Handlers |-> 0]]

\* a HeaderMap: header name to the values it carries, in order
EmptyHeaders == [n \in {} |-> <<>>]

NoWire == [inbound |-> <<>>, forwarded |-> EmptyHeaders, backend |-> <<>>,
           relayed |-> EmptyHeaders, status |-> 0, body |-> 0,
           client_status |-> 0, client_body |-> 0]

\* an f32 is <<m, e>>, worth m * 2^e, with m = 0 or 2^23 <= m < 2^24
F32Hidden == 8388608
F32Limit == 16777216
F32Zero == <<0, 0>>

NoSystem == [total |-> 0, used |-> 0, usage_percent |-> F32Zero]

\* an f64 is <<m, e>>, worth m * 2^e, with m the 53-bit mantissa as digits
\* in base 2^15, lowest first; zero has no digits
F64Zero == <<<<>>, 0>>

NoMean == [total_requests |-> 0, avg_response_time_ms |-> F64Zero,
           pending |-> 0, responses |-> 0, sum |-> F64Zero,
           peak |-> F64Zero, sequential |-> TRUE]

Init ==
    /\ traffic_metrics = DefaultTraffic
    /\ traffic_lock = 0
    /\ pc = [r \in Reqs |-> "idle"]
    /\ req = [r \in Reqs |-> NoReq]
    /\ hist = [r \in Reqs |-> NoHist]
    /\ obs = NoObs
    /\ traffic_data = DefaultTraffic
    /\ traffic_poisoned = FALSE
    /\ token_metrics = InitialTokens
    /\ token_call = NoCall
    /\ token_data = InitialTokens
    /\ ledger = NoLedger
    /\ routed = NoRoute
    /\ wire = NoWire
    /\ system = NoSystem
    /\ mean = NoMean

\* proxy_handler entry up to traffic_metrics.total_requests += 1
IngressBegin(r, method, path, cap) ==
    /\ pc[r] \in {"idle", "done"}
    /\ obs.accepted < cap
    /\ traffic_lock = 0
    /\ ~traffic_poisoned
    /\ traffic_lock' = r
    /\ traffic_metrics' = CountRequest(traffic_metrics)
    /\ req' = [req EXCEPT ![r] = [NoReq EXCEPT !.method = method, !.path = path]]
    /\ hist' = [hist EXCEPT ![r] = NoHist]
    /\ obs' = [obs EXCEPT !.accepted = @ + 1]
    /\ pc' = [pc EXCEPT ![r] = "ingress"]
    /\ UNCHANGED traffic_data
    /\ UNCHANGED <<traffic_poisoned, other_vars>>

\* the ingress writes without the enclosing block: the write guard lives on
\* to the end of the handler
IngressEndHeld(r, body_len, ua, hour, now) ==
    /\ pc[r] = "ingress"
    /\ traffic_lock = r
    /\ traffic_metrics' =
          RecordIngress(traffic_metrics, req[r].path, body_len, ua, hour, now)
    /\ hist' = [hist EXCEPT ![r].ingress = @ + 1]
    /\ obs' = [obs EXCEPT !.received[req[r].path] = @ + 1]
    /\ pc' = [pc EXCEPT ![r] = "dispatch"]
    /\ UNCHANGED <<traffic_lock, req, traffic_data>>
    /\ UNCHANGED <<traffic_poisoned, other_vars>>

\* rest of the ingress block; the write guard is dropped at its end
IngressEnd(r, body_len, ua, hour, now) ==
    /\ pc[r] = "ingress"
    /\ traffic_lock = r
    /\ traffic_metrics' =
          RecordIngress(traffic_metrics, req[r].path, body_len, ua, hour, now)
    /\ traffic_lock' = 0
    /\ hist' = [hist EXCEPT ![r].ingress = @ + 1]
    /\ obs' = [obs EXCEPT !.received[req[r].path] = @ + 1]
    /\ pc' = [pc EXCEPT ![r] = "dispatch"]
    /\ UNCHANGED <<req, traffic_data>>
    /\ UNCHANGED <<traffic_poisoned, other_vars>>

\* the default arm of the method match
Reject(r) ==
    /\ pc[r] = "dispatch"
    /\ ~IsSupported(req[r].method)
    /\ req' = [req EXCEPT ![r] = [NoReq EXCEPT !.resp = 405]]
    /\ hist' = [hist EXCEPT ![r].fate = "rejected"]
    /\ obs' = [obs EXCEPT !.rejected[req[r].path] = @ + 1]
    /\ pc' = [pc EXCEPT ![r] = "done"]
    /\ UNCHANGED <<traffic_metrics, traffic_lock, traffic_data>>
    /\ UNCHANGED <<traffic_poisoned, other_vars>>

\* build forwarded_req, copy the headers, start send_body(body)
Send(r) ==
    /\ pc[r] = "dispatch"
    /\ IsSupported(req[r].method)
    /\ hist' = [hist EXCEPT ![r].sent = TRUE]
    /\ pc' = [pc EXCEPT ![r] = "sending"]
    /\ UNCHANGED <<traffic_metrics, traffic_lock, req, obs, traffic_data>>
    /\ UNCHANGED <<traffic_poisoned, other_vars>>

\* send_body(body).await => Ok(response)
SendOk(r, status) ==
    /\ pc[r] = "sending"
    /\ req' = [req EXCEPT ![r].status = status]
    /\ pc' = [pc EXCEPT ![r] = "reading"]
    /\ UNCHANGED <<traffic_metrics, traffic_lock, hist, obs, traffic_data>>
    /\ UNCHANGED <<traffic_poisoned, other_vars>>

\* a failed send counted as a 500 response
SendFailRecorded(r) ==
    /\ pc[r] = "sending"
    /\ traffic_lock = 0
    /\ traffic_metrics' =
          [traffic_metrics EXCEPT !.responses_by_status = Bump(@, 500)]
    /\ req' = [req EXCEPT ![r] = [NoReq EXCEPT !.resp = 500]]
    /\ hist' = [hist EXCEPT ![r].fate = "send_failed"]
    /\ pc' = [pc EXCEPT ![r] = "done"]
    /\ UNCHANGED <<traffic_lock, obs, traffic_data>>
    /\ UNCHANGED <<traffic_poisoned, other_vars>>

\* send_body(body).await => Err(err)
SendFail(r) ==
    /\ pc[r] = "sending"
    /\ req' = [req EXCEPT ![r] = [NoReq EXCEPT !.resp = 500]]
    /\ hist' = [hist EXCEPT ![r].fate = "send_failed"]
    /\ pc' = [pc EXCEPT ![r] = "done"]
    /\ UNCHANGED <<traffic_metrics, traffic_lock, obs, traffic_data>>
    /\ UNCHANGED <<traffic_poisoned, other_vars>>

\* the response handed back as soon as the body is read, the egress block
\* left out
BodyOkRespond(r, len) ==
    /\ pc[r] = "reading"
    /\ req' = [req EXCEPT ![r] = [NoReq EXCEPT !.resp = req[r].status]]
    /\ hist' = [hist EXCEPT ![r].roundtrip = TRUE, ![r].fate = "relayed"]
    /\ obs' = [obs EXCEPT !.completed[req[r].status] = @ + 1,
                          !.bytes_back = @ + len]
    /\ pc' = [pc EXCEPT ![r] = "done"]
    /\ UNCHANGED <<traffic_metrics, traffic_lock, traffic_data>>
    /\ UNCHANGED <<traffic_poisoned, other_vars>>

\* response.body().await => Ok(bytes)
BodyOk(r, len) ==
    /\ pc[r] = "reading"
    /\ req' = [req EXCEPT ![r].body_bytes = len]
    /\ hist' = [hist EXCEPT ![r].roundtrip = TRUE]
    /\ obs' = [obs EXCEPT !.completed[req[r].status] = @ + 1,
                          !.bytes_back = @ + len]
    /\ pc' = [pc EXCEPT ![r] = "egress_wait"]
    /\ UNCHANGED <<traffic_metrics, traffic_lock, traffic_data>>
    /\ UNCHANGED <<traffic_poisoned, other_vars>>

\* a body error swallowed: the handler goes on with an empty body
BodyFailIgnored(r) ==
    /\ pc[r] = "reading"
    /\ req' = [req EXCEPT ![r].body_bytes = 0]
    /\ pc' = [pc EXCEPT ![r] = "egress_wait"]
    /\ UNCHANGED <<traffic_metrics, traffic_lock, hist, obs, traffic_data>>
    /\ UNCHANGED <<traffic_poisoned, other_vars>>

\* response.body().await => Err(err)
BodyFail(r) ==
    /\ pc[r] = "reading"
    /\ req' = [req EXCEPT ![r] = [NoReq EXCEPT !.resp = 500]]
    /\ hist' = [hist EXCEPT ![r].fate = "body_failed"]
    /\ pc' = [pc EXCEPT ![r] = "done"]
    /\ UNCHANGED <<traffic_metrics, traffic_lock, obs, traffic_data>>
    /\ UNCHANGED <<traffic_poisoned, other_vars>>

\* a cancelled request taken back out of the ingress counters
ClientDisconnectRollback(r) ==
    /\ pc[r] \in {"sending", "reading"}
    /\ traffic_lock = 0
    /\ traffic_metrics' =
          [traffic_metrics EXCEPT
              !.total_requests = @ - 1,
              !.requests_by_endpoint[req[r].path] = @ - 1]
    /\ req' = [req EXCEPT ![r] = NoReq]
    /\ hist' = [hist EXCEPT ![r].fate = "dropped"]
    /\ pc' = [pc EXCEPT ![r] = "done"]
    /\ UNCHANGED <<traffic_lock, obs, traffic_data>>
    /\ UNCHANGED <<traffic_poisoned, other_vars>>

\* the client goes away while the handler is suspended: the future is dropped
ClientDisconnect(r) ==
    /\ pc[r] \in {"sending", "reading"}
    /\ req' = [req EXCEPT ![r] = NoReq]
    /\ hist' = [hist EXCEPT ![r].fate = "dropped"]
    /\ pc' = [pc EXCEPT ![r] = "done"]
    /\ UNCHANGED <<traffic_metrics, traffic_lock, obs, traffic_data>>
    /\ UNCHANGED <<traffic_poisoned, other_vars>>

\* the egress block up to and including the push of elapsed
EgressBegin(r, elapsed) ==
    /\ pc[r] = "egress_wait"
    /\ traffic_lock = 0
    /\ ~traffic_poisoned
    /\ traffic_lock' = r
    /\ traffic_metrics' =
          RecordEgress(traffic_metrics, req[r].path, req[r].status,
                       req[r].body_bytes, elapsed)
    /\ req' = [req EXCEPT ![r].elapsed = elapsed]
    /\ hist' = [hist EXCEPT ![r].egress = @ + 1]
    /\ obs' = [obs EXCEPT !.samples[req[r].path] = Append(@, elapsed)]
    /\ pc' = [pc EXCEPT ![r] = "egress"]
    /\ UNCHANGED traffic_data
    /\ UNCHANGED <<traffic_poisoned, other_vars>>

\* the trim, the end of the egress block, client_resp.body(body_bytes)
EgressEnd(r) ==
    /\ pc[r] = "egress"
    /\ traffic_lock = r
    /\ traffic_metrics' = TrimTimes(traffic_metrics, req[r].path)
    /\ traffic_lock' = 0
    /\ req' = [req EXCEPT ![r] = [NoReq EXCEPT !.resp = req[r].status]]
    /\ hist' = [hist EXCEPT ![r].fate = "relayed"]
    /\ pc' = [pc EXCEPT ![r] = "done"]
    /\ UNCHANGED <<obs, traffic_data>>
    /\ UNCHANGED <<traffic_poisoned, other_vars>>

\* a scrape that copies without taking the read guard
ScrapeUnguarded ==
    /\ ~traffic_poisoned
    /\ traffic_data' = traffic_metrics
    /\ UNCHANGED <<traffic_metrics, traffic_lock, pc, req, hist, obs>>
    /\ UNCHANGED <<traffic_poisoned, other_vars>>

\* GET /metrics/traffic: state.traffic_metrics.read().unwrap().clone()
Scrape ==
    /\ traffic_lock = 0
    /\ ~traffic_poisoned
    /\ traffic_data' = traffic_metrics
    /\ UNCHANGED <<traffic_metrics, traffic_lock, pc, req, hist, obs>>
    /\ UNCHANGED <<traffic_poisoned, other_vars>>

\* a panic inside the ingress or the egress block: unwinding drops the write
\* guard, which marks the lock poisoned; what was written so far stays
HandlerPanic(r) ==
    /\ pc[r] \in {"ingress", "egress"}
    /\ traffic_lock = r
    /\ traffic_lock' = 0
    /\ traffic_poisoned' = TRUE
    /\ req' = [req EXCEPT ![r] = NoReq]
    /\ hist' = [hist EXCEPT ![r].fate = "panicked"]
    /\ pc' = [pc EXCEPT ![r] = "done"]
    /\ UNCHANGED <<traffic_metrics, obs, traffic_data, other_vars>>

\* proxy_handler entry on a poisoned lock: write() is Err, unwrap() panics
IngressPoisoned(r, method, path, cap) ==
    /\ pc[r] \in {"idle", "done"}
    /\ obs.accepted < cap
    /\ traffic_lock = 0
    /\ traffic_poisoned
    /\ req' = [req EXCEPT ![r] = NoReq]
    /\ hist' = [hist EXCEPT ![r] = [NoHist EXCEPT !.fate = "poisoned"]]
    /\ obs' = [obs EXCEPT !.accepted = @ + 1]
    /\ pc' = [pc EXCEPT ![r] = "done"]
    /\ UNCHANGED <<traffic_metrics, traffic_lock, traffic_data>>
    /\ UNCHANGED <<traffic_poisoned, other_vars>>

\* the egress block on a poisoned lock: write() is Err, unwrap() panics
EgressPoisoned(r) ==
    /\ pc[r] = "egress_wait"
    /\ traffic_lock = 0
    /\ traffic_poisoned
    /\ req' = [req EXCEPT ![r] = NoReq]
    /\ hist' = [hist EXCEPT ![r].fate = "poisoned"]
    /\ pc' = [pc EXCEPT ![r] = "done"]
    /\ UNCHANGED <<traffic_metrics, traffic_lock, obs, traffic_data>>
    /\ UNCHANGED <<traffic_poisoned, other_vars>>

\* GET /metrics/traffic on a poisoned lock: read() is Err, unwrap() panics
ScrapePoisoned ==
    /\ traffic_lock = 0
    /\ traffic_poisoned
    /\ obs' = [obs EXCEPT !.scrape_failed = TRUE]
    /\ UNCHANGED <<traffic_metrics, traffic_lock, pc, req, hist, traffic_data>>
    /\ UNCHANGED <<traffic_poisoned, other_vars>>

\* one step of the service, its inputs drawn from the given sets
Serve(methods, paths, sizes, agents, hours, times, statuses, lens, lats, cap) ==
    \/ \E r \in Reqs, m \in methods, p \in paths : IngressBegin(r, m, p, cap)
    \/ \E r \in Reqs, b \in sizes, ua \in agents, h \in hours, t \in times :
          IngressEnd(r, b, ua, h, t)
    \/ \E r \in Reqs : Reject(r)
    \/ \E r \in Reqs : Send(r)
    \/ \E r \in Reqs, s \in statuses : SendOk(r, s)
    \/ \E r \in Reqs : SendFail(r)
    \/ \E r \in Reqs, n \in lens : BodyOk(r, n)
    \/ \E r \in Reqs : BodyFail(r)
    \/ \E r \in Reqs : ClientDisconnect(r)
    \/ \E r \in Reqs, e \in lats : EgressBegin(r, e)
    \/ \E r \in Reqs : EgressEnd(r)

\* varied arrivals, one kind of backend answer
Next ==
    Serve(Methods, Paths, BodySizes, UserAgents, Hours, {100},
          {200}, {3}, {1}, MaxRequests)

Spec == Init /\ [][Next]_vars

\* one kind of arrival, varied backend answers
EgressNext ==
    Serve(Methods, Paths, {2}, {"curl"}, {0}, {100},
          BackendStatuses, RespSizes, Latencies, MaxRequests)

EgressSpec == Init /\ [][EgressNext]_vars

\* the service together with GET /metrics/traffic
ScrapeNext ==
    \/ Serve(Methods, Paths, {2}, {"curl"}, {0}, Times,
             {200}, {3}, Latencies, MaxRequests)
    \/ Scrape

ScrapeSpec == Init /\ [][ScrapeNext]_vars

\* one client sending request after request, every one answered; the k-th
\* latency recorded for a path is k
SoakNext ==
    \/ \E p \in Paths : IngressBegin(1, "GET", p, MaxSoak)
    \/ IngressEnd(1, 2, "curl", 0, 100)
    \/ Send(1)
    \/ SendOk(1, 200)
    \/ BodyOk(1, 3)
    \/ EgressBegin(1, Len(obs.samples[req[1].path]) + 1)
    \/ EgressEnd(1)

SoakSpec == Init /\ [][SoakNext]_vars

\* one client sending request after request to one path, every one
\* answered, with GET /metrics/traffic; the k-th latency recorded is k
RelayNext ==
    \/ IngressBegin(1, "GET", "/a", MaxRelayed)
    \/ IngressEnd(1, 2, "curl", 0, 100)
    \/ Send(1)
    \/ SendOk(1, 200)
    \/ BodyOk(1, 3)
    \/ EgressBegin(1, Len(obs.samples["/a"]) + 1)
    \/ EgressEnd(1)
    \/ Scrape

RelaySpec == Init /\ [][RelayNext]_vars

\* the service and the scrape with handlers that may panic inside a block
PoisonNext ==
    \/ Serve(Methods, {"/a"}, {2}, {"curl"}, {0}, {100},
             {200}, {3}, {1}, MaxRequests)
    \/ Scrape
    \/ \E r \in Reqs : HandlerPanic(r)
    \/ \E r \in Reqs, m \in Methods : IngressPoisoned(r, m, "/a", MaxRequests)
    \/ \E r \in Reqs : EgressPoisoned(r)
    \/ ScrapePoisoned

PoisonSpec == Init /\ [][PoisonNext]_vars

\* ------------------------------------------------------------- token ledger
\* update_token_metrics up to the timestamp; the write guard is taken
UpdateTokensBegin(payload, now) ==
    /\ ~token_call.held
    /\ ledger.count < MaxUpdates
    /\ token_metrics' = RecordTotals(token_metrics, payload, now)
    /\ token_call' = [held |-> TRUE, model |-> payload.model,
                      total |-> payload.total, input |-> payload.input,
                      output |-> payload.output]
    /\ ledger' = [ledger EXCEPT
                    !.count = @ + 1,
                    !.total = @ + payload.total,
                    !.input = @ + (IF payload.input = Absent THEN 0
                                   ELSE payload.input),
                    !.output = @ + (IF payload.output = Absent THEN 0
                                    ELSE payload.output)]
    /\ UNCHANGED <<traffic_vars, token_data, routed, wire, system, mean>>

\* the per-model total, the answer; the write guard is dropped at the return
UpdateTokensEnd ==
    /\ token_call.held
    /\ token_metrics' = RecordModel(token_metrics, token_call)
    /\ token_call' = NoCall
    /\ ledger' =
          IF token_call.model = NoModel THEN ledger
          ELSE [ledger EXCEPT
                  !.named = @ \cup {token_call.model},
                  !.by[token_call.model] = @ + token_call.total]
    /\ UNCHANGED <<traffic_vars, token_data, routed, wire, system, mean>>

\* GET /metrics/tokens: token_metrics.read().unwrap().clone()
TokenScrape ==
    /\ ~token_call.held
    /\ token_data' = token_metrics
    /\ UNCHANGED <<traffic_vars, token_metrics, token_call, ledger, routed,
                   wire, system, mean>>

Payloads ==
    [model : Models, total : Totals, input : InputCounts,
     output : OutputCounts]

LedgerNext ==
    \/ \E payload \in Payloads, now \in Times : UpdateTokensBegin(payload, now)
    \/ UpdateTokensEnd
    \/ TokenScrape

LedgerSpec == Init /\ [][LedgerNext]_vars

\* both ledgers written and scraped side by side, one kind of request and
\* one kind of update
SnapshotNext ==
    \/ Serve(Methods, {"/a"}, {2}, {"curl"}, {0}, {100},
             {200}, {3}, {1}, MaxRequests)
    \/ Scrape
    \/ UpdateTokensBegin([model |-> "gpt", total |-> 5, input |-> 4,
                          output |-> Absent], 200)
    \/ UpdateTokensEnd
    \/ TokenScrape

SnapshotSpec == Init /\ [][SnapshotNext]_vars

\* ------------------------------------------------------------- routing
\* the services of App::new(), in the order they are registered: each
\* web::resource(path) is a resource of its own, has no guard of its own,
\* and carries one route guarded by a method
Resources ==
    << [path |-> "/metrics", method |-> "GET", handler |-> "metrics"],
       [path |-> "/metrics/system", method |-> "GET",
        handler |-> "system_metrics"],
       [path |-> "/metrics/tokens", method |-> "GET",
        handler |-> "token_metrics"],
       [path |-> "/metrics/tokens", method |-> "POST",
        handler |-> "update_token_metrics"],
       [path |-> "/metrics/traffic", method |-> "GET",
        handler |-> "traffic_metrics"] >>

\* the router takes the first resource whose pattern matches the path; the
\* resource then tries its routes and, when none accepts the method, answers
\* with its own default service, 405 Method Not Allowed; a path no resource
\* matches goes to default_service, the proxy handler
RouteHandler(method, path) ==
    LET hits == {i \in DOMAIN Resources : Resources[i].path = path}
    IN  IF hits = {} THEN "proxy_handler"
        ELSE LET first == CHOOSE i \in hits : \A j \in hits : i <= j
             IN  IF Resources[first].method = method
                 THEN Resources[first].handler
                 ELSE "method_not_allowed"

\* one request passed through the router
Dispatch(method, path) ==
    /\ SumMap(routed.tally) < MaxRouted
    /\ routed' = [method |-> method, path |-> path,
                  handler |-> RouteHandler(method, path),
                  tally |-> [routed.tally EXCEPT
                                ![RouteHandler(method, path)] = @ + 1]]
    /\ UNCHANGED <<traffic_vars, token_vars, wire, system, mean>>

RouteNext == \E m \in RouteMethods, p \in RoutePaths : Dispatch(m, p)

RouteSpec == Init /\ [][RouteNext]_vars

\* ------------------------------------------------------------- headers
\* insert_header((name, value)): replaces whatever the name carried
InsertHeader(map, name, value) ==
    [n \in DOMAIN map \cup {name} |-> IF n = name THEN <<value>> ELSE map[n]]

\* for (name, value) in headers.iter() { if name != skip { insert_header } }
\* over the name/value pairs in the order iter() yields them
RECURSIVE CopyHeaders(_, _, _)
CopyHeaders(pairs, map, skip) ==
    IF pairs = <<>> THEN map
    ELSE LET h == Head(pairs)
         IN  CopyHeaders(Tail(pairs),
                         IF h[1] = skip THEN map
                         ELSE InsertHeader(map, h[1], h[2]),
                         skip)

\* every message of at most MaxHeaders header lines
HeaderLines(names) ==
    UNION {[1..k -> names \X HeaderValues] : k \in 0..MaxHeaders}

\* the headers given to forwarded_req; wire holds the one message in hand
ForwardHeaders(inbound) ==
    /\ wire' = [NoWire EXCEPT
                  !.inbound = inbound,
                  !.forwarded = CopyHeaders(inbound, EmptyHeaders, "host")]
    /\ UNCHANGED <<traffic_vars, token_vars, routed, system, mean>>

\* status, headers and body given to client_resp
RelayResponse(status, backend, body) ==
    /\ wire' = [NoWire EXCEPT
                  !.backend = backend,
                  !.status = status,
                  !.body = body,
                  !.relayed =
                      CopyHeaders(backend, EmptyHeaders, "content-length"),
                  !.client_status = status,
                  !.client_body = body]
    /\ UNCHANGED <<traffic_vars, token_vars, routed, system, mean>>

HeaderNext ==
    \/ \E inbound \in HeaderLines(RequestHeaderNames) : ForwardHeaders(inbound)
    \/ \E s \in BackendStatuses, b \in RespSizes,
          backend \in HeaderLines(ResponseHeaderNames) :
              RelayResponse(s, backend, b)

HeaderSpec == Init /\ [][HeaderNext]_vars

\* ------------------------------------------------------------- f64
\* natural numbers of any size: digits in base 2^15, lowest first, no
\* leading zero
Base == 32768
BaseBits == 15

RECURSIVE Digits(_)
Digits(n) == IF n = 0 THEN <<>> ELSE <<n % Base>> \o Digits(n \div Base)

RECURSIVE Strip(_)
Strip(a) ==
    IF a = <<>> \/ a[Len(a)] # 0 THEN a ELSE Strip(SubSeq(a, 1, Len(a) - 1))

RECURSIVE BigAddC(_, _, _)
BigAddC(a, b, c) ==
    IF a = <<>> /\ b = <<>> THEN Digits(c)
    ELSE LET x == IF a = <<>> THEN 0 ELSE Head(a)
             y == IF b = <<>> THEN 0 ELSE Head(b)
             t == x + y + c
         IN  <<t % Base>> \o BigAddC(IF a = <<>> THEN a ELSE Tail(a),
                                      IF b = <<>> THEN b ELSE Tail(b),
                                      t \div Base)

BigAdd(a, b) == BigAddC(a, b, 0)

\* a * k for an integer k below Base
RECURSIVE BigMulC(_, _, _)
BigMulC(a, k, c) ==
    IF a = <<>> THEN Digits(c)
    ELSE LET t == Head(a) * k + c
         IN  <<t % Base>> \o BigMulC(Tail(a), k, t \div Base)

BigMul(a, k) == Strip(BigMulC(a, k, 0))

\* a divided by an integer d below Base: <<quotient, remainder>>, from the
\* highest digit of a down, q the digits found so far, r the remainder
RECURSIVE BigDivR(_, _, _, _, _)
BigDivR(a, i, d, q, r) ==
    IF i = 0 THEN <<q, r>>
    ELSE LET t == r * Base + a[i]
         IN  BigDivR(a, i - 1, d, <<t \div d>> \o q, t % d)

BigDiv(a, d) ==
    LET qr == BigDivR(a, Len(a), d, <<>>, 0) IN <<Strip(qr[1]), qr[2]>>

\* a * 2^k
BigShl(a, k) ==
    IF a = <<>> THEN a
    ELSE [i \in 1..(k \div BaseBits) |-> 0] \o BigMul(a, 2 ^ (k % BaseBits))

\* a / 2^k: <<quotient, whether digits were lost>>
BigShr(a, k) ==
    LET whole == k \div BaseBits
        rest == SubSeq(a, whole + 1, Len(a))
        qr == BigDiv(rest, 2 ^ (k % BaseBits))
    IN  <<qr[1], qr[2] # 0 \/ \E i \in 1..whole : i <= Len(a) /\ a[i] # 0>>

\* binary digits of a
RECURSIVE IntBits(_)
IntBits(n) == IF n = 0 THEN 0 ELSE 1 + IntBits(n \div 2)

BigBits(a) ==
    IF a = <<>> THEN 0 ELSE BaseBits * (Len(a) - 1) + IntBits(a[Len(a)])

\* a < b, a = b, a > b as -1, 0, 1
RECURSIVE BigCmpFrom(_, _, _)
BigCmpFrom(a, b, i) ==
    IF i = 0 THEN 0
    ELSE IF a[i] < b[i] THEN -1
    ELSE IF a[i] > b[i] THEN 1
    ELSE BigCmpFrom(a, b, i - 1)

BigCmp(a, b) ==
    IF Len(a) < Len(b) THEN -1
    ELSE IF Len(a) > Len(b) THEN 1
    ELSE BigCmpFrom(a, b, Len(a))

\* binary digits in an f64 mantissa
F64Digits == 53

\* m * 2^e, plus a nonzero fraction below m when sticky, rounded to the
\* nearest f64, ties to the even mantissa
F64Round(m, e, sticky) ==
    LET drop == BigBits(m) - F64Digits
    IN  IF m = <<>> THEN F64Zero
        ELSE IF drop <= 0 THEN <<BigShl(m, 0 - drop), e + drop>>
        ELSE LET cut == BigShr(m, drop - 1)
                 half == BigDiv(cut[1], 2)
                 kept == half[1]
                 up == half[2] = 1 /\ (sticky \/ cut[2] \/ kept[1] % 2 = 1)
                 r == IF up THEN BigAdd(kept, <<1>>) ELSE kept
             IN  IF BigBits(r) > F64Digits
                 THEN <<BigDiv(r, 2)[1], e + drop + 1>>
                 ELSE <<r, e + drop>>

\* n as f64
F64OfInt(n) == F64Round(Digits(n), 0, FALSE)

\* a * k in f64, k an integer below Base
F64MulInt(a, k) == F64Round(BigMul(a[1], k), a[2], FALSE)

\* a / d in f64, d the product of the nonzero integers ds, each below Base
RECURSIVE BigDivAll(_, _, _)
BigDivAll(a, ds, lost) ==
    IF ds = <<>> THEN <<a, lost>>
    ELSE LET qr == BigDiv(a, Head(ds))
         IN  BigDivAll(qr[1], Tail(ds), lost \/ qr[2] # 0)

F64DivInts(a, ds) ==
    LET qr == BigDivAll(BigShl(a[1], 105), ds, FALSE)
    IN  F64Round(qr[1], a[2] - 105, qr[2])

F64DivInt(a, d) == F64DivInts(a, <<d>>)

\* a + b in f64
F64Add(a, b) ==
    IF a[1] = <<>> THEN b
    ELSE IF b[1] = <<>> THEN a
    ELSE LET e == IF a[2] < b[2] THEN a[2] ELSE b[2]
         IN  F64Round(BigAdd(BigShl(a[1], a[2] - e), BigShl(b[1], b[2] - e)),
                      e, FALSE)

\* start_time.elapsed().as_secs_f64() * 1000.0 for a Duration under a second:
\* nanos as f64 / 1_000_000_000 as f64, then * 1000.0
ElapsedMs(nanos) ==
    F64MulInt(F64DivInts(F64OfInt(nanos), <<1000, 1000, 1000>>), 1000)

\* the average with the weight of the old value one too high
UpdateAvgHeavy(avg, n, elapsed) ==
    IF n > 1
    THEN F64DivInt(F64Add(F64MulInt(avg, n), elapsed), n)
    ELSE elapsed

\* avg_response_time_ms as the egress block computes it in f64
UpdateAvgF64(avg, n, elapsed) ==
    IF n > 1
    THEN F64DivInt(F64Add(F64MulInt(avg, n - 1), elapsed), n)
    ELSE elapsed

\* exact sum of two values m * 2^e, nothing rounded
ExactAdd(a, b) ==
    IF a[1] = <<>> THEN b
    ELSE IF b[1] = <<>> THEN a
    ELSE LET e == IF a[2] < b[2] THEN a[2] ELSE b[2]
         IN  <<BigAdd(BigShl(a[1], a[2] - e), BigShl(b[1], b[2] - e)), e>>

\* a < b, a = b, a > b as -1, 0, 1, for values m * 2^e
ExactCmp(a, b) ==
    IF a[1] = <<>> /\ b[1] = <<>> THEN 0
    ELSE IF a[1] = <<>> THEN -1
    ELSE IF b[1] = <<>> THEN 1
    ELSE LET e == IF a[2] < b[2] THEN a[2] ELSE b[2]
         IN  BigCmp(BigShl(a[1], a[2] - e), BigShl(b[1], b[2] - e))

\* the ingress block without the increment of total_requests
MeanIngressUncounted ==
    /\ mean.pending < MaxMean
    /\ mean' = [mean EXCEPT !.pending = @ + 1,
                            !.sequential = @ /\ mean.pending = 0]
    /\ UNCHANGED <<traffic_vars, token_vars, routed, wire, system>>

\* the ingress block: traffic_metrics.total_requests += 1
MeanIngress ==
    /\ mean.total_requests < MaxMean
    /\ mean' = [mean EXCEPT !.total_requests = @ + 1,
                            !.pending = @ + 1,
                            !.sequential = @ /\ mean.pending = 0]
    /\ UNCHANGED <<traffic_vars, token_vars, routed, wire, system>>

\* the egress block: elapsed measured, avg_response_time_ms updated
MeanEgress(nanos) ==
    /\ mean.pending > 0
    /\ LET elapsed == ElapsedMs(nanos)
       IN  mean' = [mean EXCEPT
                      !.avg_response_time_ms =
                          UpdateAvgF64(@, mean.total_requests, elapsed),
                      !.pending = @ - 1,
                      !.responses = @ + 1,
                      !.sum = ExactAdd(@, elapsed),
                      !.peak = IF ExactCmp(@, elapsed) < 0 THEN elapsed
                               ELSE @]
    /\ UNCHANGED <<traffic_vars, token_vars, routed, wire, system>>

\* a request that leaves before the egress block: 405, or 500 on a failed
\* send or body read
MeanFail ==
    /\ mean.pending > 0
    /\ mean' = [mean EXCEPT !.pending = @ - 1, !.sequential = FALSE]
    /\ UNCHANGED <<traffic_vars, token_vars, routed, wire, system>>

MeanNext ==
    \/ MeanIngress
    \/ \E nanos \in DurationNanos : MeanEgress(nanos)
    \/ MeanFail

MeanSpec == Init /\ [][MeanNext]_vars

\* ------------------------------------------------------------- system
\* round n * 2^e (plus a nonzero fraction below n when sticky) to the
\* nearest f32, ties to the even mantissa
RECURSIVE F32Round(_, _, _)
F32Round(n, e, sticky) ==
    IF n = 0 THEN F32Zero
    ELSE IF n >= 2 * F32Limit
         THEN F32Round(n \div 2, e + 1, sticky \/ n % 2 = 1)
    ELSE IF n >= F32Limit
         THEN LET q == n \div 2
                  up == n % 2 = 1 /\ (sticky \/ q % 2 = 1)
                  r == IF up THEN q + 1 ELSE q
              IN  IF r = F32Limit THEN <<F32Hidden, e + 2>> ELSE <<r, e + 1>>
    ELSE IF n < F32Hidden THEN F32Round(2 * n, e - 1, sticky)
    ELSE <<n, e>>

\* n as f32
AsF32(n) == F32Round(n, 0, FALSE)

\* k more binary digits of a quotient: <<quotient, remainder>>
RECURSIVE DivBits(_, _, _, _)
DivBits(q, r, d, k) ==
    IF k = 0 THEN <<q, r>>
    ELSE IF 2 * r >= d THEN DivBits(2 * q + 1, 2 * r - d, d, k - 1)
    ELSE DivBits(2 * q, 2 * r, d, k - 1)

\* a / b in f32, b nonzero
F32Div(a, b) ==
    IF a[1] = 0 THEN F32Zero
    ELSE LET qr == DivBits(a[1] \div b[1], a[1] % b[1], b[1], 25)
         IN  F32Round(qr[1], a[2] - b[2] - 25, qr[2] # 0)

\* a * 100.0 in f32 (100 = 25 * 2^2)
F32Mul100(a) == F32Round(a[1] * 25, a[2] + 2, FALSE)

\* the fraction without the scaling to a percentage
UsagePercentFraction(used, total) ==
    IF total > 0 THEN F32Div(AsF32(used), AsF32(total)) ELSE F32Zero

\* MemoryMetrics.usage_percent
UsagePercent(used, total) ==
    IF total > 0 THEN F32Mul100(F32Div(AsF32(used), AsF32(total)))
    ELSE F32Zero

\* GET /metrics, GET /metrics/system: build_system_metrics on a fresh reading
SystemScrape(used, total) ==
    /\ system' = [total |-> total, used |-> used,
                  usage_percent |-> UsagePercent(used, total)]
    /\ UNCHANGED <<traffic_vars, token_vars, routed, wire, mean>>

SystemNext == \E used \in MemorySizes, total \in MemorySizes :
                  SystemScrape(used, total)

SystemSpec == Init /\ [][SystemNext]_vars

\* ------------------------------------------------------------- properties
InFlight(r) == pc[r] \notin {"idle", "done"}

RECURSIVE SumUpTo(_, _)
SumUpTo(f, n) == IF n < 0 THEN 0 ELSE f[n] + SumUpTo(f, n - 1)

SumHours(tm) == SumUpTo(tm.hourly_requests, HoursPerDay - 1)

\* C1: outside a write critical section, and in every copy returned by
\* GET /metrics/traffic, total_requests is the sum of requests_by_endpoint
\* over all paths, whatever became of the requests.
C1_TotalIsEndpointSum ==
    /\ traffic_lock = 0 =>
          traffic_metrics.total_requests
              = SumMap(traffic_metrics.requests_by_endpoint)
    /\ traffic_data.total_requests = SumMap(traffic_data.requests_by_endpoint)

\* a scrape that saw two requests to one path, one of them rejected
C1_Witness ==
    /\ traffic_lock = 0
    /\ traffic_data.total_requests = 2
    /\ Get(traffic_data.requests_by_endpoint, "/a") = 2
    /\ obs.rejected["/a"] = 1

\* C2 (as claimed): a request answered 405 leaves requests_by_endpoint of its
\* path and total_requests as they were before it: once answered, it is in
\* neither count.
C2_RejectedLeavesCounters ==
    traffic_lock = 0 =>
        /\ \A p \in Paths :
              Get(traffic_metrics.requests_by_endpoint, p)
                  = obs.received[p] - obs.rejected[p]
        /\ traffic_metrics.total_requests
              = obs.accepted - SumMap(obs.rejected)

\* C3: once every accepted request has done its ingress write, total_requests
\* is the number of accepted requests and requests_by_endpoint[P] the number
\* of them addressed to P, under every interleaving.
C3_NoLostIncrement ==
    (\A r \in Reqs : pc[r] # "ingress") =>
        /\ traffic_metrics.total_requests = obs.accepted
        /\ \A p \in Paths :
              Get(traffic_metrics.requests_by_endpoint, p) = obs.received[p]

\* two requests to the same path in flight together, both counted
C3_Witness ==
    /\ pc[1] = "sending"
    /\ pc[2] = "sending"
    /\ req[1].path = req[2].path
    /\ traffic_metrics.total_requests = 2

\* the fields written by the egress block
EgressFields(tm) ==
    <<tm.responses_by_status, tm.total_bytes_out, tm.avg_response_time_ms,
      tm.response_times>>

\* requests whose round trip is complete and whose egress write is still to come
Pending(s) ==
    Cardinality({r \in Reqs : pc[r] = "egress_wait" /\ req[r].status = s})

PendingBytes ==
    SumUpTo([r \in 0..NumReqs |->
                IF r \in Reqs /\ pc[r] = "egress_wait"
                THEN req[r].body_bytes ELSE 0], NumReqs)

Failed(r) == hist[r].fate \in {"send_failed", "body_failed"}

FailStep ==
    \E r \in Reqs :
        /\ pc[r] \in {"sending", "reading"}
        /\ pc'[r] = "done"
        /\ req'[r].resp = 500

C4_Accounting ==
    /\ \A r \in Reqs :
          Failed(r) =>
              /\ req[r].resp = 500
              /\ hist[r].ingress = 1
              /\ hist[r].egress = 0
    /\ DOMAIN traffic_metrics.responses_by_status \subseteq BackendStatuses
    /\ \A s \in BackendStatuses :
          Get(traffic_metrics.responses_by_status, s)
              = obs.completed[s] - Pending(s)
    /\ traffic_metrics.total_bytes_out = obs.bytes_back - PendingBytes

\* C4: a request whose send or body read fails is answered 500, keeps its
\* ingress write and does no egress write: the failing step changes none of
\* responses_by_status, total_bytes_out, avg_response_time_ms, response_times,
\* and the status counts and bytes out are those of the completed round trips.
C4_FailureKeepsIngressOnly ==
    /\ []C4_Accounting
    /\ [][FailStep =>
            EgressFields(traffic_metrics') = EgressFields(traffic_metrics)]_vars

\* one request failed while reading the body, another was relayed
C4_Witness ==
    \E r, q \in Reqs :
        /\ hist[r].fate = "body_failed"
        /\ req[r].resp = 500
        /\ hist[q].fate = "relayed"

\* C5: every request does exactly one ingress write, before the backend is
\* dispatched; it does one egress write exactly when its round trip
\* completed, after that and after its ingress write; never two of a kind.
C5_OneIngressOneEgress ==
    \A r \in Reqs :
        /\ hist[r].ingress <= 1
        /\ hist[r].egress <= 1
        /\ hist[r].sent => hist[r].ingress = 1
        /\ pc[r] \in {"dispatch", "sending", "reading", "egress_wait",
                      "egress", "done"} => hist[r].ingress = 1
        /\ hist[r].egress = 1 => hist[r].roundtrip /\ hist[r].ingress = 1
        /\ pc[r] = "egress_wait" => hist[r].roundtrip /\ hist[r].egress = 0
        /\ pc[r] = "done" => (hist[r].egress = 1 <=> hist[r].roundtrip)

\* a relayed request with both writes next to a failed one with one write
C5_Witness ==
    /\ hist[1].fate = "relayed"
    /\ hist[1].ingress = 1
    /\ hist[1].egress = 1
    /\ hist[2].fate = "send_failed"
    /\ hist[2].egress = 0

RejectStep ==
    \E r \in Reqs : pc[r] = "dispatch" /\ pc'[r] = "done"

C6_NotForwarded ==
    \A r \in Reqs :
        /\ (InFlight(r) /\ req[r].method \notin SupportedMethods) =>
              /\ ~hist[r].sent
              /\ ~hist[r].roundtrip
              /\ hist[r].egress = 0
        /\ hist[r].fate = "rejected" =>
              /\ req[r].resp = 405
              /\ ~hist[r].sent
              /\ hist[r].egress = 0

\* C6: a request with an unsupported method is never sent to the backend and
\* does no egress write; the step answering 405 changes none of
\* responses_by_status, total_bytes_out, avg_response_time_ms, response_times.
C6_RejectedNeverForwarded ==
    /\ []C6_NotForwarded
    /\ [][RejectStep =>
            EgressFields(traffic_metrics') = EgressFields(traffic_metrics)]_vars

\* a rejected request while the only 405 counted is one the backend gave
C6_Witness ==
    \E r \in Reqs :
        /\ hist[r].fate = "rejected"
        /\ req[r].resp = 405
        /\ Get(traffic_metrics.responses_by_status, 405) = 1

\* C7: the responses counted by status never outnumber total_requests.
C7_ResponsesAtMostRequests ==
    SumMap(traffic_metrics.responses_by_status)
        <= traffic_metrics.total_requests

\* two requests counted, one response counted, the other request failed
C7_Witness ==
    /\ traffic_metrics.total_requests = 2
    /\ SumMap(traffic_metrics.responses_by_status) = 1
    /\ \E r \in Reqs : hist[r].fate = "send_failed"

C8_HoursSum ==
    /\ DOMAIN traffic_metrics.hourly_requests = 0..23
    /\ traffic_lock = 0 =>
          SumHours(traffic_metrics) = traffic_metrics.total_requests

C9_LatestHundred ==
    traffic_lock = 0 =>
        \A p \in Paths :
            LET all == obs.samples[p]
                k == Len(all)
                m == IF k < 100 THEN k ELSE 100
                kept == IF p \in DOMAIN traffic_metrics.response_times
                        THEN traffic_metrics.response_times[p] ELSE <<>>
            IN  /\ kept = SubSeq(all, k - m + 1, k)
                /\ Len(kept) <= 100
                /\ k = 150 => kept = [i \in 1..100 |-> 50 + i]

\* 150 latencies recorded for one path
C9_Witness ==
    /\ traffic_lock = 0
    /\ Len(obs.samples["/a"]) = 150

EgressStep(r) == pc[r] = "egress_wait" /\ pc'[r] = "egress"

\* C10: an egress write sets avg_response_time_ms to (avg*(n-1) + elapsed)/n
\* with n the total_requests it finds; after a single request, received and
\* relayed, the average is that request's latency.
C10_AverageUpdate ==
    /\ [][\A r \in Reqs :
            EgressStep(r) =>
                LET n == traffic_metrics.total_requests
                    a == traffic_metrics.avg_response_time_ms
                    b == traffic_metrics'.avg_response_time_ms
                    e == req'[r].elapsed
                IN  b[1] * a[2] * n = (a[1] * (n - 1) + e * a[2]) * b[2]]_vars
    /\ [](\A p \in Paths :
            (obs.accepted = 1 /\ Len(obs.samples[p]) = 1) =>
                traffic_metrics.avg_response_time_ms = <<obs.samples[p][1], 1>>)

\* an egress write that found two requests counted and no response yet
C10_Witness ==
    \E r \in Reqs :
        /\ pc[r] = "egress"
        /\ traffic_metrics.total_requests = 2
        /\ SumMap(traffic_metrics.responses_by_status) = 1
        /\ traffic_metrics.avg_response_time_ms = <<3, 2>>
\* C11: with no update in progress, total_processed, input_tokens and
\* output_tokens are the sums of the recorded 'total', 'input' and 'output'
\* (absent as 0), and by_model holds, for exactly the models named, the sum
\* of 'total' over the updates naming them.
C11_LedgerSums ==
    ~token_call.held =>
        /\ token_metrics.total_processed = ledger.total
        /\ token_metrics.input_tokens = ledger.input
        /\ token_metrics.output_tokens = ledger.output
        /\ DOMAIN token_metrics.by_model = ledger.named
        /\ \A m \in ledger.named : token_metrics.by_model[m] = ledger.by[m]

\* {total:10, input:4, output:6, model:gpt} and {total:5, model:gpt} recorded
C11_Witness ==
    /\ ~token_call.held
    /\ ledger.count = 2
    /\ token_metrics.total_processed = 15
    /\ token_metrics.input_tokens = 4
    /\ token_metrics.output_tokens = 6
    /\ DOMAIN token_metrics.by_model = {"gpt"}
    /\ token_metrics.by_model["gpt"] = 15

\* C12: total_requests, every requests_by_endpoint[path], every
\* responses_by_status[code], total_bytes_in and total_bytes_out never go
\* down in any step, whatever happens to a request after it was counted.
C12_CountersNeverDecrease ==
    [][/\ traffic_metrics'.total_requests >= traffic_metrics.total_requests
       /\ traffic_metrics'.total_bytes_in >= traffic_metrics.total_bytes_in
       /\ traffic_metrics'.total_bytes_out >= traffic_metrics.total_bytes_out
       /\ \A p \in Paths :
             Get(traffic_metrics'.requests_by_endpoint, p)
                 >= Get(traffic_metrics.requests_by_endpoint, p)
       /\ \A c \in BackendStatuses \cup {405, 500} :
             Get(traffic_metrics'.responses_by_status, c)
                 >= Get(traffic_metrics.responses_by_status, c)]_vars

\* a request dropped by its client after it was counted, next to a relayed one
C12_Witness ==
    \E r, q \in Reqs :
        /\ hist[r].fate = "dropped"
        /\ hist[q].fate = "relayed"
        /\ traffic_metrics.total_requests = 2
        /\ traffic_metrics.total_bytes_in = 4

Suspended(r) == pc[r] \in {"sending", "reading"}

\* C13: a handler suspended on the backend never holds the traffic lock; the
\* lock is held only inside the ingress or egress block, whose last step
\* waits for nothing; so with the lock free a scrape and the egress write of
\* any other request can go ahead while one request stays suspended.
C13_LockFreeWhileSuspended ==
    /\ \A r \in Reqs : Suspended(r) => traffic_lock # r
    /\ traffic_lock # 0 =>
          /\ pc[traffic_lock] \in {"ingress", "egress"}
          /\ ENABLED (\/ IngressEnd(traffic_lock, 2, "curl", 0, 100)
                      \/ EgressEnd(traffic_lock))
    /\ (traffic_lock = 0 /\ \E r \in Reqs : Suspended(r)) =>
          /\ ENABLED Scrape
          /\ \A q \in Reqs : pc[q] = "egress_wait" => ENABLED EgressBegin(q, 1)

\* request 1 still waits for the backend; request 2 was counted and relayed
\* meanwhile and a scrape has seen both
C13_Witness ==
    /\ pc[1] = "sending"
    /\ hist[2].fate = "relayed"
    /\ traffic_data.total_requests = 2
    /\ SumMap(traffic_data.responses_by_status) = 1

\* the handler the route table is meant to give
Intended(method, path) ==
    CASE method = "GET" /\ path = "/metrics" -> "metrics"
      [] method = "GET" /\ path = "/metrics/system" -> "system_metrics"
      [] method = "GET" /\ path = "/metrics/tokens" -> "token_metrics"
      [] method = "POST" /\ path = "/metrics/tokens" -> "update_token_metrics"
      [] method = "GET" /\ path = "/metrics/traffic" -> "traffic_metrics"
      [] OTHER -> "proxy_handler"

\* C14 (as claimed): the five metrics routes reach their handlers, POST
\* /metrics/tokens among them, and every other method and path reaches the
\* proxy handler.
C14_RouteTable ==
    routed.handler # "none" =>
        routed.handler = Intended(routed.method, routed.path)

\* the name/value pairs of a list of header lines and of a HeaderMap
LinePairs(lines) == {lines[i] : i \in DOMAIN lines}

MapPairs(map) ==
    UNION {{<<n, map[n][i]>> : i \in DOMAIN map[n]} : n \in DOMAIN map}

\* C15 (as claimed): the client gets the backend's status, its body, and
\* every name/value pair of the backend's headers except Content-Length,
\* each value of a repeated name included.
C15_ResponseRelayed ==
    /\ wire.client_status = wire.status
    /\ wire.client_body = wire.body
    /\ MapPairs(wire.relayed)
          = {h \in LinePairs(wire.backend) : h[1] # "content-length"}

\* C16 (as claimed): the backend gets every name/value pair of the inbound
\* headers except Host, each value of a repeated name included, and no Host
\* pair.
C16_RequestForwarded ==
    /\ MapPairs(wire.forwarded)
          = {h \in LinePairs(wire.inbound) : h[1] # "host"}
    /\ "host" \notin DOMAIN wire.forwarded

\* C17: a scrape changes no field of either ledger; the copy it returns is
\* the ledger as it stands while no write critical section is open; and a
\* later write leaves the copy as it was.
C17_ScrapeIsSnapshot ==
    [][/\ traffic_data' # traffic_data =>
            /\ traffic_lock = 0
            /\ traffic_data' = traffic_metrics
            /\ traffic_metrics' = traffic_metrics
            /\ token_metrics' = token_metrics
       /\ token_data' # token_data =>
            /\ ~token_call.held
            /\ token_data' = token_metrics
            /\ token_metrics' = token_metrics
            /\ traffic_metrics' = traffic_metrics
       /\ traffic_metrics' # traffic_metrics => traffic_data' = traffic_data
       /\ token_metrics' # token_metrics => token_data' = token_data]_vars

\* both copies taken after some writes, and both ledgers written again since
C17_Witness ==
    /\ traffic_data # DefaultTraffic
    /\ traffic_data # traffic_metrics
    /\ token_data # InitialTokens
    /\ token_data # token_metrics

\* C18 (as claimed): last_updated never goes down, whatever the wall clock
\* reads when an ingress write stores it.
C18_LastUpdatedNonDecreasing ==
    [][traffic_metrics'.last_updated >= traffic_metrics.last_updated]_vars

\* C19 (as claimed): once a handler has failed inside a block and poisoned
\* the lock, no other request fails at the lock and no scrape fails: later
\* requests are accounted and forwarded, later scrapes return a snapshot.
C19_OnlyAffectedRequestFails ==
    /\ \A r \in Reqs : hist[r].fate # "poisoned"
    /\ ~obs.scrape_failed

\* floor of 100 * used / total in units of 2^e, and whether it is exact
PercentInUnits(used, total, e) ==
    LET n == 100 * used
        whole == n \div total
    IN  IF e <= 0
        THEN LET qr == DivBits(whole, n % total, total, 0 - e)
             IN  [units |-> qr[1], exact |-> qr[2] = 0]
        ELSE [units |-> whole \div (2 ^ e),
              exact |-> n % total = 0 /\ whole % (2 ^ e) = 0]

\* C20 (as claimed): usage_percent is 0 when total is 0, and otherwise is
\* exactly used / total * 100, for every pair of used and total.
C20_UsagePercentExact ==
    /\ system.total = 0 => system.usage_percent = F32Zero
    /\ system.total > 0 =>
          LET p == PercentInUnits(system.used, system.total,
                                  system.usage_percent[2])
          IN  system.usage_percent[1] = p.units /\ p.exact

\* C20 (amended): usage_percent is exactly 0 when total is 0 (no division),
\* and otherwise is used / total * 100 as single precision computes it,
\* within 5 units in the last place of the exact value rounded down (four
\* roundings, each off by a relative 2^-24 at most).
C20_UsagePercent ==
    /\ system.total = 0 => system.usage_percent = F32Zero
    /\ system.total > 0 /\ system.used = 0 => system.usage_percent = F32Zero
    /\ system.total > 0 /\ system.used > 0 =>
          LET m == system.usage_percent[1]
              p == PercentInUnits(system.used, system.total,
                                  system.usage_percent[2])
          IN  /\ F32Hidden <= m /\ m < F32Limit
              /\ m - p.units <= 5
              /\ p.units - m <= 5

\* a reading whose percentage single precision cannot hold
C20_Witness ==
    /\ system.total > 0
    /\ system.used > 0
    /\ ~PercentInUnits(system.used, system.total,
                       system.usage_percent[2]).exact

\* requests whose round trip is complete and whose response is not handed
\* back yet
Unanswered(r) == pc[r] \in {"egress_wait", "egress"}

\* what the responses handed back so far amount to
HandedStatus(s) ==
    obs.completed[s]
        - Cardinality({r \in Reqs : Unanswered(r) /\ req[r].status = s})

HandedBytes ==
    obs.bytes_back
        - SumUpTo([r \in 0..NumReqs |->
                      IF r \in Reqs /\ Unanswered(r)
                      THEN req[r].body_bytes ELSE 0], NumReqs)

\* the latencies of path p, by their place in the order they were recorded
HandedSamples(p) ==
    LET k == Len(obs.samples[p])
    IN  IF \E r \in Reqs : pc[r] = "egress" /\ req[r].path = p
        THEN 1..(k - 1) ELSE 1..k

\* the i-th latency recorded for path p is in tm.response_times[p]
HasSample(tm, p, i) ==
    LET kept == IF p \in DOMAIN tm.response_times
                THEN tm.response_times[p] ELSE <<>>
        off == Len(obs.samples[p]) - Len(kept)
    IN  i > off /\ kept[i - off] = obs.samples[p][i]

ScrapeStep == traffic_data' # traffic_data

\* C21 (as claimed): a snapshot taken after a response was handed back holds
\* that request's status increment, its bytes out and its latency sample.
C21_SnapshotHasDelivered ==
    [][ScrapeStep =>
          /\ \A s \in BackendStatuses :
                Get(traffic_data'.responses_by_status, s) >= HandedStatus(s)
          /\ traffic_data'.total_bytes_out >= HandedBytes
          /\ \A p \in Paths : \A i \in HandedSamples(p) :
                HasSample(traffic_data', p, i)]_vars

\* C21 (amended): the same, the latency sample only as long as fewer than
\* MaxTimes later samples were recorded for its path.
C21_SnapshotHasRecent ==
    [][ScrapeStep =>
          /\ \A s \in BackendStatuses :
                Get(traffic_data'.responses_by_status, s) >= HandedStatus(s)
          /\ traffic_data'.total_bytes_out >= HandedBytes
          /\ \A p \in Paths : \A i \in HandedSamples(p) :
                i > Len(obs.samples[p]) - MaxTimes =>
                    HasSample(traffic_data', p, i)]_vars

\* a snapshot taken right after the response to request MaxTimes + 1: the
\* first latency is gone from it, the latest MaxTimes are there
C21_Witness ==
    /\ pc[1] = "done"
    /\ hist[1].fate = "relayed"
    /\ Len(obs.samples["/a"]) = MaxTimes + 1
    /\ traffic_data = traffic_metrics
    /\ Len(traffic_data.response_times["/a"]) = MaxTimes
    /\ traffic_data.response_times["/a"][1] = 2
    /\ traffic_data.response_times["/a"][MaxTimes] = MaxTimes + 1

\* x * (1 + k * 2^-51) >= y, for values m * 2^e
WithinRounding(x, k, y) ==
    ExactCmp(<<y[1], y[2] + 51>>,
             <<BigAdd(BigShl(x[1], 51), BigMul(x[1], k)), x[2]>>) <= 0

\* every request so far was answered before the next one came in
AllAnswered ==
    mean.sequential /\ mean.pending = 0 /\ mean.responses >= 1

\* avg_response_time_ms times the number of requests
AvgTimesCount ==
    <<BigMul(mean.avg_response_time_ms[1], mean.responses),
      mean.avg_response_time_ms[2]>>

\* C22 (as claimed): with the requests processed one after another and all
\* answered, avg_response_time_ms is the arithmetic mean of the latencies
\* (the f64 nearest to it).
C22_SequentialMean ==
    AllAnswered =>
        mean.avg_response_time_ms = F64DivInt(mean.sum, mean.responses)

\* C22 (amended): in that case avg_response_time_ms is the arithmetic mean
\* to within the rounding of the f64 updates, a relative N * 2^-51.
C22_SequentialMeanRounded ==
    AllAnswered =>
        /\ mean.responses = mean.total_requests
        /\ WithinRounding(mean.sum, mean.responses, AvgTimesCount)
        /\ WithinRounding(AvgTimesCount, mean.responses, mean.sum)

\* three requests one after another whose average is not the f64 nearest to
\* their mean
C22_Witness ==
    /\ AllAnswered
    /\ mean.responses = 3
    /\ mean.avg_response_time_ms # F64DivInt(mean.sum, mean.responses)

\* C23 (as claimed): avg_response_time_ms is at least 0 and at most the
\* largest latency passed to an egress write so far, and an egress write
\* never finds total_requests at 0.
C23_AvgBounded ==
    /\ ExactCmp(F64Zero, mean.avg_response_time_ms) <= 0
    /\ ExactCmp(mean.avg_response_time_ms, mean.peak) <= 0
    /\ mean.pending > 0 => mean.total_requests >= 1

\* C23 (amended): avg_response_time_ms is at least 0 and exceeds the largest
\* latency by no more than the rounding of the f64 updates, a relative
\* total_requests * 2^-51; an egress write never finds total_requests at 0.
C23_AvgBoundedRounded ==
    /\ ExactCmp(F64Zero, mean.avg_response_time_ms) <= 0
    /\ WithinRounding(mean.peak, mean.total_requests,
                      mean.avg_response_time_ms)
    /\ mean.pending > 0 => mean.total_requests >= 1
    /\ mean.pending <= mean.total_requests

\* an average above every latency recorded
C23_Witness ==
    /\ mean.responses = 3
    /\ ExactCmp(mean.avg_response_time_ms, mean.peak) > 0

====
